---- MODULE Spec2Model ----
(***************************************************************************)
(* Cloudflare-Gateway-Pihole: the reconciliation engine                     *)
(* (CloudflareManager.update_resources, src/src/__main__.py) and the        *)
(* remote client (src/src/cloudflare.py), as a state machine.               *)
(*                                                                         *)
(* One run of the program is one process: it loads the cache file, runs     *)
(* one converge pass and exits.  The remote store and the cache file live   *)
(* on between runs.  Every remote call is one step of the pass, so that a   *)
(* call that raises (its retries exhausted, or an error that is not         *)
(* retried) aborts the pass between two calls as it does in the code.       *)
(*                                                                         *)
(* Scaling.  The code's list size (1000) and list ceiling (298) are kept as *)
(* LIST_SIZE and MAX_LISTS with small values; every comparison of the code  *)
(* is made against these names, never against a literal.                    *)
(***************************************************************************)
EXTENDS Integers, Sequences, FiniteSets, TLC

\* ---------------------------------------------------------------- bounds
MaxRuns == 3
MaxFailures == 1
\* the attempts the remote client's retry profile allows one operation
MaxApiAttempts == 3

\* ------------------------------------------------------ program constants
\* __main__.py:97 "if len(chunk) < 1000" (scaled)
LIST_SIZE == 2
\* __main__.py:23 "MAX_LISTS = 298" (scaled)
MAX_LISTS == 3
\* cloudflare.py:27 "max_retries = 3"
max_retries == 3

\* domains.py:10 "max_attempts=15"
max_attempts == 15
\* domains.py:83 "max_redirects = 10"
max_redirects == 10

\* __main__.py:26 "MAX_DOMAINS = MAX_LISTS * 1000"
MAX_DOMAINS == MAX_LISTS * LIST_SIZE
\* __main__.py:18 "> 300000": the free tier's 300 lists, two above MAX_LISTS
FREE_LIMIT == (MAX_LISTS + 2) * LIST_SIZE

\* the universe of domains: one more than fits, so that a desired set can be
\* over capacity
NumDomains == MAX_DOMAINS + 1

Domains == 1..NumDomains

\* the desired sets a run is given: every set of the first LIST_SIZE + 2
\* domains (up to two lists' worth), and the sets 1..n beyond them, up to
\* the one that is a domain too large
DesiredSets ==
    (SUBSET (1..(LIST_SIZE + 2))) \cup {1..n : n \in (LIST_SIZE + 2)..NumDomains}

VARIABLES
    \* the remote store
    rlists,             \* the managed lists that exist: records [id, idx, items]
    rrule,              \* <<>> or <<[traffic |-> seq of list ids]>>: the managed rule
    nextId,             \* the id the remote gives the next created list
    \* the cache: the file, and the running process's copy of it
    disk,
    cache,
    github_actions,     \* utils.is_running_in_github_actions()
    \* the running process
    pc,
    domains_to_block,
    current_list_count,
    current_rules,
    orphaned_lists,
    current_lists,
    to_map,
    remaining_domains,
    list_name_to_id,
    max_index,
    i,
    new_list_ids,
    upd,                \* the loop body's locals while update_list runs
    ul,                 \* update_list's frame: list_id, remove_list,
                        \* append_items, attempt, status, sent
    \* history
    calls,              \* the mutating calls this pass has issued, in order
    visits,             \* the existing lists the per-index loop has visited
    count0,             \* len(all_cf_lists) of this pass
    orphans0,           \* the ids of the orphaned lists this pass found
    fresh,              \* this pass started on an empty remote and an empty cache
    repeat,             \* this run repeats the run before it, which succeeded,
                        \* with the same desired set
    runs,
    failures,
    \* one operation of the remote client, or one download, seen from the
    \* request layer
    operation,          \* the function called
    rpc,                \* where the call is: call, gate, request, response,
                        \* except, returned, raised
    attempt_number,     \* the retry wrapper's attempt
    patch_attempt,      \* update_list's attempt
    redirect_count,
    response,           \* the status class of the response in hand
    requests,           \* the requests the current attempt has sent
    gated,              \* the gate was passed since the last request
    ungated,            \* a request was sent without its own gate pass
    last_failure,       \* the class of the error the attempt raised
    decisions,          \* what became of each failed attempt
    overflow_at,        \* the attempt that met too many redirects
    rate_limit_is_http, \* RateLimitException is a subclass of HTTPException
    \* DomainConverter: the URL lists, the download cache files and what
    \* process_urls has collected
    adlist_urls,
    whitelist_urls,
    cache_files,        \* the cache files that exist: records [name, data]
    block_content,      \* what download_with_cache returned, in order
    white_content

vars == <<rlists, rrule, nextId, disk, cache, github_actions, pc,
          domains_to_block, current_list_count, current_rules, orphaned_lists,
          current_lists, to_map, remaining_domains, list_name_to_id, max_index,
          i, new_list_ids, upd, ul, calls, visits, count0, orphans0, fresh, repeat, runs,
          failures, operation, rpc, attempt_number, patch_attempt,
          redirect_count, response, requests, gated, ungated, last_failure,
          decisions, overflow_at, rate_limit_is_http, adlist_urls,
          whitelist_urls, cache_files, block_content, white_content>>

remote == <<rlists, rrule, nextId>>
adlists == <<adlist_urls, whitelist_urls, cache_files, block_content,
             white_content>>
net == <<operation, rpc, attempt_number, patch_attempt, redirect_count,
         response, requests, gated, ungated, last_failure, decisions,
         overflow_at, rate_limit_is_http, adlists>>
locals == <<current_list_count, current_rules, orphaned_lists, current_lists,
            to_map, remaining_domains, list_name_to_id, max_index, i,
            new_list_ids, upd, ul, count0, orphans0>>

\* ---------------------------------------------------------------- helpers
Range(s) == {s[k] : k \in 1..Len(s)}

Max(S) == CHOOSE x \in S : \A y \in S : y <= x

Min2(a, b) == IF a < b THEN a ELSE b

RECURSIVE SeqOfSet(_)
\* a set of integers as the ascending sequence
SeqOfSet(S) ==
    IF S = {} THEN <<>>
    ELSE LET m == CHOOSE x \in S : \A y \in S : x <= y
         IN <<m>> \o SeqOfSet(S \ {m})

\* the subsets of S with exactly n elements: what list(S)[:n] can be, the
\* iteration order of a Python set of strings being any order
Take(S, n) == {T \in SUBSET S : Cardinality(T) = n}

EmptyCache == [lists |-> <<>>, rules |-> <<>>, mapping |-> {}]

\* a dictionary keyed by list id is kept as the set of its entries, each a
\* record with an id field; an id has at most one entry
Ids(m) == {e.id : e \in m}

Entry(m, id) == CHOOSE e \in m : e.id = id

MapPut(m, e) == {x \in m : x.id # e.id} \cup {e}

MapDel(m, id) == {x \in m : x.id # id}

\* ------------------------------------------------------- the remote client
\* cloudflare.get_lists: the managed lists' metadata, in id order
get_lists == LET ids == SeqOfSet(Ids(rlists))
             IN [k \in 1..Len(ids) |->
                    [id |-> ids[k], idx |-> Entry(rlists, ids[k]).idx]]

\* cloudflare.get_rules: the rules whose name starts with the managed name
get_rules == rrule

\* cloudflare.get_list_items of a list that exists
get_list_items(id) == Entry(rlists, id).items

\* utils.get_current_lists: the cached lists if the cache holds any, else
\* the remote inventory
get_current_lists == IF cache.lists # <<>> THEN cache.lists ELSE get_lists

\* utils.get_current_rules: the cached rules if the cache holds any, else
\* the remote rules
get_current_rules == IF cache.rules # <<>> THEN cache.rules ELSE get_rules

\* create_rule / update_rule: the traffic expression is the " or " join of
\* one term per list id, in the order given
Traffic(list_ids) == list_ids

\* utils.extract_list_ids: the set of ids the rule's expression names
extract_list_ids(rule) == IF rule = <<>> THEN {} ELSE Range(rule[1].traffic)

\* the remote's answer to PATCH /lists/{id}: a removal of an item that is
\* not in the list is refused whole; otherwise removals, then appends, apply
PatchAccepted(items, remove) == remove \subseteq items

Patched(items, remove, append) == (items \ remove) \cup append

NoUpd == [list_id |-> 0, idx |-> 0, cur |-> {}, rem |-> {}, remove |-> {},
          add |-> {}]

NoCall == [list_id |-> 0, remove_list |-> {}, append_items |-> {},
           attempt |-> 0, status |-> "none", sent |-> <<>>]

\* a logged call: the operation, the list's id and index, what was asked
\* (remove, add), what the engine had read before it (cur: the list's items,
\* or the ids the remote rule named; rem: remaining_domains), and whether
\* the call returned; for a rule call, existed says whether the remote held
\* the managed rule when the call was made
Call(op, id, idx, remove, add, cur, rem, ok) ==
    [op |-> op, id |-> id, idx |-> idx, remove |-> remove, add |-> add,
     cur |-> cur, rem |-> rem, ok |-> ok, existed |-> TRUE]

\* no call is under way in the request layer
\* no DomainConverter at work, no download cache file
AdlistsIdle ==
    /\ adlist_urls = <<>>
    /\ whitelist_urls = <<>>
    /\ cache_files = {}
    /\ block_content = <<>>
    /\ white_content = <<>>

NetIdle ==
    /\ operation = "none"
    /\ rpc = "none"
    /\ attempt_number = 0
    /\ patch_attempt = 0
    /\ redirect_count = 0
    /\ response = "none"
    /\ requests = 0
    /\ gated = FALSE
    /\ ungated = FALSE
    /\ last_failure = "none"
    /\ decisions = {}
    /\ overflow_at = 0
    /\ rate_limit_is_http = FALSE
    /\ AdlistsIdle

\* ------------------------------------------------------------------- Init
Init ==
    /\ rlists = {}
    /\ rrule = <<>>
    /\ nextId = 1
    /\ disk = EmptyCache
    /\ cache = EmptyCache
    /\ github_actions \in BOOLEAN
    /\ pc = "idle"
    /\ domains_to_block = {}
    /\ current_list_count = 0
    /\ current_rules = <<>>
    /\ orphaned_lists = <<>>
    /\ current_lists = <<>>
    /\ to_map = <<>>
    /\ remaining_domains = {}
    /\ list_name_to_id = {}
    /\ max_index = 0
    /\ i = 0
    /\ new_list_ids = <<>>
    /\ upd = NoUpd
    /\ ul = NoCall
    /\ calls = <<>>
    /\ visits = <<>>
    /\ count0 = 0
    /\ orphans0 = {}
    /\ fresh = FALSE
    /\ repeat = FALSE
    /\ runs = 0
    /\ failures = 0
    /\ NetIdle

\* ------------------------------------------------ the pass's computations
\* a precheck that knows the free tier's limit only (line 18 without line 28)
FreeLimitOnly(d) == Cardinality(d) > FREE_LIMIT

\* lines 18-30: the two size checks before the first remote call
TooManyDomains(d) ==
    Cardinality(d) > FREE_LIMIT \/ Cardinality(d) > MAX_DOMAINS

\* line 43: the lists of the inventory that the rule does not name
orphaned(all_cf_lists, active_list_ids) ==
    SelectSeq(all_cf_lists, LAMBDA lst : lst.id \notin active_list_ids)

\* a deletion that is not counted
CountKept(count) == count

\* line 52: current_list_count -= 1
CountAfterDelete(count) == count - 1

\* lines 53-54: stop deleting orphans once there is room
EnoughSpace(count) == count < MAX_LISTS

\* a gate that lets a count of exactly MAX_LISTS through
OverCapacity(count) == count > MAX_LISTS

\* line 58: the capacity gate
AtCapacity(count) == count >= MAX_LISTS

\* line 80: needed_lists
NeededLists(d) == (Cardinality(d) + (LIST_SIZE - 1)) \div LIST_SIZE

\* lines 81-82: max_index
MaxIndex(existing_indexes, needed_lists) ==
    Min2(IF existing_indexes # {}
         THEN Max(existing_indexes \cup {needed_lists})
         ELSE needed_lists,
         MAX_LISTS)

\* a diff that removes nothing
RemoveNothing(current_values, desired) == {}

\* line 93: remove_items
RemoveItems(current_values, desired) == current_values \ desired

\* a top-up that takes every remaining domain, whatever the list holds
TopUpAll(chunk, remaining) == Cardinality(remaining)

\* lines 96-99: how many domains the top-up takes from remaining_domains
TopUpSize(chunk, remaining) ==
    IF Cardinality(chunk) < LIST_SIZE
    THEN Min2(LIST_SIZE - Cardinality(chunk), Cardinality(remaining))
    ELSE 0

\* an update_list call for every visited list
AlwaysUpdate(remove_items, new_items) == TRUE

\* line 103: whether update_list is called
NeedsUpdate(remove_items, new_items) == remove_items # {} \/ new_items # {}

\* a new list seeded one domain short of full
SeedOne(remaining) == Min2(LIST_SIZE - 1, Cardinality(remaining))

\* line 125: how many domains a new list is seeded with
SeedSize(remaining) == Min2(LIST_SIZE, Cardinality(remaining))

\* a rule that is rewritten on every pass
NeverUnchanged(list_ids, cgp_list_ids) == FALSE

\* line 139: whether the rule is left alone
RuleUnchanged(list_ids, cgp_list_ids) == Range(list_ids) = cgp_list_ids

\* a not-found test that allows a retry after the last attempt as well
RetryOnceMore(attempt) == attempt < max_retries

\* cloudflare.py line 38: a "not found in list" error is retried
MayRetry(attempt) == attempt < max_retries - 1

\* a retry that sends the same removal list again
NotFiltered(remove_list, not_found_domain) == remove_list

\* cloudflare.py lines 47-48: the named domain leaves the removal list
Filtered(remove_list, not_found_domain) == remove_list \ {not_found_domain}

\* the pass raises (a remote call's error, or error() exiting the process)
Abort ==
    /\ pc' = "failed"

\* a remote call raises although the request was well-formed: its retries
\* are exhausted, or the error is one the retry policy does not retry
CanFail == failures < MaxFailures

\* ---------------------------------------------------------------- the pass
\* main() -> CloudflareManager(PREFIX) -> update_resources, up to the
\* capacity precheck (lines 16-30)
StartRun(d) ==
    /\ pc = "idle"
    /\ runs < MaxRuns
    /\ runs' = runs + 1
    /\ cache' = disk
    /\ domains_to_block' = d
    /\ repeat' = FALSE
    /\ fresh' = (rlists = {} /\ rrule = <<>> /\ disk = EmptyCache)
    /\ calls' = <<>>
    /\ visits' = <<>>
    /\ pc' = IF TooManyDomains(d) THEN "failed" ELSE "fetch"
    /\ UNCHANGED <<remote, disk, github_actions, locals, failures>>
    /\ UNCHANGED net

\* lines 32-43: the remote inventory, the rule (cache-assisted), the orphans
FetchInventory ==
    /\ pc = "fetch"
    /\ \/ LET all_cf_lists == get_lists
              rules == get_current_rules
              active_list_ids == extract_list_ids(rules)
              orphans == orphaned(all_cf_lists, active_list_ids)
          IN /\ current_list_count' = Len(all_cf_lists)
             /\ count0' = Len(all_cf_lists)
             /\ current_rules' = rules
             /\ cache' = [cache EXCEPT !.rules = rules]
             /\ disk' = IF cache.rules # <<>> THEN disk ELSE cache'
             /\ orphaned_lists' = SubSeq(orphans, 1, Min2(Len(orphans), MAX_LISTS))
             /\ orphans0' = {lst.id : lst \in Range(orphans)}
             /\ pc' = "orphans"
             /\ UNCHANGED failures
       \/ /\ CanFail
          /\ failures' = failures + 1
          /\ Abort
          /\ UNCHANGED <<cache, disk, current_list_count, count0, current_rules,
                         orphaned_lists, orphans0>>
    /\ UNCHANGED <<remote, github_actions, domains_to_block, current_lists,
                   to_map, remaining_domains, list_name_to_id, max_index, i,
                   new_list_ids, upd, ul, calls, visits, fresh, repeat, runs>>
    /\ UNCHANGED net

\* an orphan loop that a failed deletion ends
StopAfterFailedDelete(orphans) == <<>>

\* lines 55-56: the except clause logs the failure and the loop goes on
\* with the next orphan
AfterFailedDelete(orphans) == Tail(orphans)

\* lines 46-56: one turn of the orphan loop
DeleteOrphan ==
    /\ pc = "orphans"
    /\ orphaned_lists # <<>>
    /\ LET lst == Head(orphaned_lists)
       IN \/ /\ rlists' = MapDel(rlists, lst.id)
             /\ current_list_count' = CountAfterDelete(current_list_count)
             /\ orphaned_lists' = IF EnoughSpace(current_list_count')
                                  THEN <<>> ELSE Tail(orphaned_lists)
             /\ calls' = Append(calls, Call("delete_list", lst.id, lst.idx,
                                            {}, {}, {}, {}, TRUE))
             /\ UNCHANGED failures
          \/ /\ CanFail
             /\ failures' = failures + 1
             /\ orphaned_lists' = AfterFailedDelete(orphaned_lists)
             /\ calls' = Append(calls, Call("delete_list", lst.id, lst.idx,
                                            {}, {}, {}, {}, FALSE))
             /\ UNCHANGED <<rlists, current_list_count>>
    /\ UNCHANGED <<rrule, nextId, disk, cache, github_actions, pc,
                   domains_to_block, current_rules, current_lists, to_map,
                   remaining_domains, list_name_to_id, max_index, i,
                   new_list_ids, upd, ul, visits, count0, orphans0, fresh, repeat, runs>>
    /\ UNCHANGED net

\* lines 58-61: the capacity gate, then utils.get_current_lists
CapacityGate ==
    /\ pc = "orphans"
    /\ orphaned_lists = <<>>
    /\ IF AtCapacity(current_list_count)
       THEN /\ Abort
            /\ UNCHANGED <<cache, disk, current_lists, to_map, failures>>
       ELSE \/ LET lists == get_current_lists
               IN /\ current_lists' = lists
                  /\ to_map' = lists
                  /\ cache' = [cache EXCEPT !.lists = lists]
                  /\ disk' = IF cache.lists # <<>> THEN disk ELSE cache'
                  /\ pc' = "mapping"
                  /\ UNCHANGED failures
            \/ /\ cache.lists = <<>>
               /\ CanFail
               /\ failures' = failures + 1
               /\ Abort
               /\ UNCHANGED <<cache, disk, current_lists, to_map>>
    /\ UNCHANGED <<remote, github_actions, domains_to_block, current_list_count,
                   current_rules, orphaned_lists, remaining_domains,
                   list_name_to_id, max_index, i, new_list_ids, upd, ul, calls,
                   visits, count0, orphans0, fresh, repeat, runs>>
    /\ UNCHANGED net

\* lines 64-67: one turn of the loop over current_lists,
\* utils.get_list_items_cached
MapList ==
    /\ pc = "mapping"
    /\ to_map # <<>>
    /\ LET lst == Head(to_map)
       IN IF lst.id \in Ids(cache.mapping)
          THEN /\ to_map' = Tail(to_map)
               /\ UNCHANGED <<cache, disk, pc, failures>>
          ELSE IF lst.id \notin Ids(rlists)
          THEN /\ Abort
               /\ UNCHANGED <<cache, disk, to_map, failures>>
          ELSE \/ /\ cache' = [cache EXCEPT !.mapping =
                                 MapPut(@, [id |-> lst.id,
                                            items |-> get_list_items(lst.id)])]
                  /\ disk' = cache'
                  /\ to_map' = Tail(to_map)
                  /\ UNCHANGED <<pc, failures>>
               \/ /\ CanFail
                  /\ failures' = failures + 1
                  /\ Abort
                  /\ UNCHANGED <<cache, disk, to_map>>
    /\ UNCHANGED <<remote, github_actions, domains_to_block, current_list_count,
                   current_rules, orphaned_lists, current_lists,
                   remaining_domains, list_name_to_id, max_index, i,
                   new_list_ids, upd, ul, calls, visits, count0, orphans0, fresh, repeat,
                   runs>>
    /\ UNCHANGED net

\* line 76: {lst["name"]: lst["id"] for lst in current_lists}; a later list of
\* the same name replaces an earlier one.  A name "<prefix> - 007" is kept as
\* its index, which is what line 77 parses out of it and line 88 formats.
NameToId(lists) ==
    {[idx |-> lists[k].idx, id |-> lists[k].id] :
        k \in {k \in 1..Len(lists) :
                 \A j \in (k + 1)..Len(lists) : lists[j].idx # lists[k].idx}}

Indexes(m) == {e.idx : e \in m}

IdAt(m, idx) == (CHOOSE e \in m : e.idx = idx).id

\* lines 64-83: the cached assignment, the remaining domains, the index range
Plan ==
    /\ pc = "mapping"
    /\ to_map = <<>>
    /\ LET list_id_to_domains ==
               {Entry(cache.mapping, current_lists[k].id) :
                    k \in 1..Len(current_lists)}
           domain_to_list_id == UNION {e.items : e \in list_id_to_domains}
           existing_indexes == {current_lists[k].idx : k \in 1..Len(current_lists)}
           needed_lists == NeededLists(domains_to_block)
       IN /\ remaining_domains' = domains_to_block \ domain_to_list_id
          /\ list_name_to_id' = NameToId(current_lists)
          /\ max_index' = MaxIndex(existing_indexes, needed_lists)
    /\ i' = 1
    /\ new_list_ids' = <<>>
    /\ pc' = "loop"
    /\ UNCHANGED <<remote, disk, cache, github_actions, domains_to_block,
                   current_list_count, current_rules, orphaned_lists,
                   current_lists, to_map, upd, ul, calls, visits, count0, orphans0, fresh, repeat, runs, failures>>
    /\ UNCHANGED net

\* lines 89-104: index i holds a list: fetch it, diff it, top it up, and
\* call update_list if there is anything to remove or to add
LoopExisting ==
    /\ pc = "loop"
    /\ i <= max_index
    /\ i \in Indexes(list_name_to_id)
    /\ LET list_id == IdAt(list_name_to_id, i)
       IN IF list_id \notin Ids(rlists)
          THEN /\ Abort
               /\ UNCHANGED <<remaining_domains, visits, upd, ul, new_list_ids,
                              i, failures>>
          ELSE \/ LET current_values == get_list_items(list_id)
                      remove_items == RemoveItems(current_values,
                                                  domains_to_block)
                      chunk == current_values \ remove_items
                      needed_items == TopUpSize(chunk, remaining_domains)
                  IN \E new_items \in Take(remaining_domains, needed_items) :
                       /\ remaining_domains' = remaining_domains \ new_items
                       /\ visits' = Append(visits,
                              [id |-> list_id, idx |-> i, cur |-> current_values,
                               rem |-> remaining_domains,
                               remove |-> remove_items, add |-> new_items])
                       /\ IF NeedsUpdate(remove_items, new_items)
                          THEN /\ upd' = [list_id |-> list_id, idx |-> i,
                                          cur |-> current_values,
                                          rem |-> remaining_domains,
                                          remove |-> remove_items,
                                          add |-> new_items]
                               /\ ul' = [list_id |-> list_id,
                                         remove_list |-> remove_items,
                                         append_items |-> new_items,
                                         attempt |-> 0, status |-> "running",
                                         sent |-> <<>>]
                               /\ pc' = "update_list"
                               /\ UNCHANGED <<new_list_ids, i>>
                          ELSE /\ new_list_ids' = Append(new_list_ids, list_id)
                               /\ i' = i + 1
                               /\ UNCHANGED <<upd, ul, pc>>
                       /\ UNCHANGED failures
               \/ /\ CanFail
                  /\ failures' = failures + 1
                  /\ Abort
                  /\ UNCHANGED <<remaining_domains, visits, upd, ul,
                                 new_list_ids, i>>
    /\ UNCHANGED <<remote, disk, cache, github_actions, domains_to_block,
                   current_list_count, current_rules, orphaned_lists,
                   current_lists, to_map, list_name_to_id, max_index, calls,
                   count0, orphans0, fresh, repeat, runs>>
    /\ UNCHANGED net

\* cloudflare.update_list, lines 28-52: one turn of the attempt loop, one
\* PATCH request.  A "not found in list" answer names one domain of the
\* removal list that the list does not hold.
PatchAttempt ==
    /\ ul.status = "running"
    /\ LET items == get_list_items(ul.list_id)
           body == [remove |-> ul.remove_list, append |-> ul.append_items]
       IN \/ /\ CanFail
             /\ failures' = failures + 1
             /\ ul' = [ul EXCEPT !.status = "raised", !.sent = Append(@, body)]
             /\ UNCHANGED rlists
          \/ /\ UNCHANGED failures
             /\ IF PatchAccepted(items, ul.remove_list)
                THEN /\ rlists' = MapPut(rlists,
                            [Entry(rlists, ul.list_id) EXCEPT !.items =
                                Patched(items, ul.remove_list, ul.append_items)])
                     /\ ul' = [ul EXCEPT !.status = "returned",
                                         !.sent = Append(@, body)]
                ELSE /\ UNCHANGED rlists
                     /\ IF MayRetry(ul.attempt)
                        THEN \E not_found_domain \in ul.remove_list \ items :
                               ul' = [ul EXCEPT
                                        !.remove_list =
                                            Filtered(@, not_found_domain),
                                        !.attempt = @ + 1,
                                        !.sent = Append(@, body)]
                        ELSE ul' = [ul EXCEPT !.status = "raised",
                                              !.sent = Append(@, body)]
    /\ UNCHANGED <<rrule, nextId, disk, cache, github_actions, pc,
                   domains_to_block, current_list_count, current_rules,
                   orphaned_lists, current_lists, to_map, remaining_domains,
                   list_name_to_id, max_index, i, new_list_ids, upd, calls,
                   visits, count0, orphans0, fresh, repeat, runs>>
    /\ UNCHANGED net

\* lines 104-118: update_list has returned (or raised) to the loop
UpdateReturn ==
    /\ pc = "update_list"
    /\ ul.status \in {"returned", "raised"}
    /\ calls' = Append(calls, Call("update_list", upd.list_id, upd.idx,
                                   upd.remove, upd.add, upd.cur, upd.rem,
                                   ul.status = "returned"))
    /\ IF ul.status = "returned"
       THEN /\ cache' = [cache EXCEPT !.mapping =
                           MapPut(@, [id |-> upd.list_id,
                                      items |-> (upd.cur \ upd.remove) \cup upd.add])]
            /\ new_list_ids' = Append(new_list_ids, upd.list_id)
            /\ i' = i + 1
            /\ pc' = "loop"
       ELSE /\ Abort
            /\ UNCHANGED <<cache, new_list_ids, i>>
    /\ upd' = NoUpd
    /\ ul' = NoCall
    /\ UNCHANGED <<remote, disk, github_actions, domains_to_block,
                   current_list_count, current_rules, orphaned_lists,
                   current_lists, to_map, remaining_domains, list_name_to_id,
                   max_index, visits, count0, orphans0, fresh, repeat, runs, failures>>
    /\ UNCHANGED net

\* lines 119-132: index i holds no list: create one if domains remain
LoopCreate ==
    /\ pc = "loop"
    /\ i <= max_index
    /\ i \notin Indexes(list_name_to_id)
    /\ IF remaining_domains = {}
       THEN /\ i' = i + 1
            /\ UNCHANGED <<rlists, nextId, cache, remaining_domains,
                           new_list_ids, calls, pc, failures>>
       ELSE IF Len(new_list_ids) >= MAX_LISTS
       THEN /\ Abort
            /\ UNCHANGED <<rlists, nextId, cache, remaining_domains,
                           new_list_ids, calls, i, failures>>
       ELSE LET needed_items == SeedSize(remaining_domains)
            IN \E new_items \in Take(remaining_domains, needed_items) :
                 /\ remaining_domains' = remaining_domains \ new_items
                 /\ \/ /\ rlists' = rlists \cup
                              {[id |-> nextId, idx |-> i, items |-> new_items]}
                       /\ nextId' = nextId + 1
                       /\ cache' = [cache EXCEPT
                              !.lists = Append(@, [id |-> nextId, idx |-> i]),
                              !.mapping = MapPut(@, [id |-> nextId,
                                                     items |-> new_items])]
                       /\ new_list_ids' = Append(new_list_ids, nextId)
                       /\ calls' = Append(calls, Call("create_list", nextId, i,
                                          {}, new_items, {}, remaining_domains,
                                          TRUE))
                       /\ i' = i + 1
                       /\ UNCHANGED <<pc, failures>>
                    \/ /\ CanFail
                       /\ failures' = failures + 1
                       /\ calls' = Append(calls, Call("create_list", 0, i,
                                          {}, new_items, {}, remaining_domains,
                                          FALSE))
                       /\ Abort
                       /\ UNCHANGED <<rlists, nextId, cache, new_list_ids, i>>
    /\ UNCHANGED <<rrule, disk, github_actions, domains_to_block,
                   current_list_count, current_rules, orphaned_lists,
                   current_lists, to_map, list_name_to_id, max_index, upd, ul,
                   visits, count0, orphans0, fresh, repeat, runs>>
    /\ UNCHANGED net

\* lines 134-150: the rule, then utils.save_cache
RuleStep ==
    /\ pc = "loop"
    /\ i > max_index
    /\ LET cgp_rule == current_rules
           cgp_list_ids == extract_list_ids(cgp_rule)
           rule == <<[traffic |-> Traffic(new_list_ids)]>>
           op == IF cgp_rule # <<>> THEN "update_rule" ELSE "create_rule"
           entry(ok) == [Call(op, 0, 0, {}, Range(new_list_ids),
                              extract_list_ids(rrule), {}, ok)
                         EXCEPT !.existed = (rrule # <<>>)]
       IN IF cgp_rule # <<>> /\ RuleUnchanged(new_list_ids, cgp_list_ids)
          THEN /\ disk' = cache
               /\ pc' = "done"
               /\ UNCHANGED <<rrule, cache, calls, failures>>
          ELSE IF cgp_rule # <<>> /\ rrule = <<>>
          THEN /\ calls' = Append(calls, entry(FALSE))
               /\ Abort
               /\ UNCHANGED <<rrule, cache, disk, failures>>
          ELSE \/ /\ rrule' = rule
                  /\ cache' = [cache EXCEPT !.rules =
                                 IF cgp_rule # <<>> THEN rule
                                 ELSE cache.rules \o rule]
                  /\ disk' = cache'
                  /\ calls' = Append(calls, entry(TRUE))
                  /\ pc' = "done"
                  /\ UNCHANGED failures
               \/ /\ CanFail
                  /\ failures' = failures + 1
                  /\ calls' = Append(calls, entry(FALSE))
                  /\ Abort
                  /\ UNCHANGED <<rrule, cache, disk>>
    /\ UNCHANGED <<rlists, nextId, github_actions, domains_to_block,
                   current_list_count, current_rules, orphaned_lists,
                   current_lists, to_map, remaining_domains, list_name_to_id,
                   max_index, i, new_list_ids, upd, ul, visits, count0, orphans0, fresh, repeat, runs>>
    /\ UNCHANGED net

\* the process's memory is gone when it ends
Reset ==
    /\ cache' = EmptyCache
    /\ current_list_count' = 0
    /\ current_rules' = <<>>
    /\ orphaned_lists' = <<>>
    /\ current_lists' = <<>>
    /\ to_map' = <<>>
    /\ remaining_domains' = {}
    /\ list_name_to_id' = {}
    /\ max_index' = 0
    /\ i' = 0
    /\ new_list_ids' = <<>>
    /\ upd' = NoUpd
    /\ ul' = NoCall
    /\ calls' = <<>>
    /\ visits' = <<>>
    /\ count0' = 0
    /\ orphans0' = {}

\* main(), lines 189-192, after update_resources: a successful run under
\* GitHub Actions deletes the cache file
CacheFileAfterRun ==
    IF pc = "done" /\ github_actions THEN EmptyCache ELSE disk

\* the process ends
Exit ==
    /\ pc \in {"done", "failed"}
    /\ pc' = "idle"
    /\ disk' = CacheFileAfterRun
    /\ Reset
    /\ domains_to_block' = {}
    /\ repeat' = FALSE
    /\ fresh' = FALSE
    /\ UNCHANGED <<remote, github_actions, runs, failures>>
    /\ UNCHANGED net

\* the process ends after a successful pass and the program is run again
\* with the same desired set, nothing else having touched the remote store
Rerun ==
    /\ pc = "done"
    /\ ~repeat
    /\ repeat' = TRUE
    /\ fresh' = FALSE
    /\ disk' = CacheFileAfterRun
    /\ cache' = disk'
    /\ current_list_count' = 0
    /\ current_rules' = <<>>
    /\ orphaned_lists' = <<>>
    /\ current_lists' = <<>>
    /\ to_map' = <<>>
    /\ remaining_domains' = {}
    /\ list_name_to_id' = {}
    /\ max_index' = 0
    /\ i' = 0
    /\ new_list_ids' = <<>>
    /\ upd' = NoUpd
    /\ ul' = NoCall
    /\ calls' = <<>>
    /\ visits' = <<>>
    /\ count0' = 0
    /\ orphans0' = {}
    /\ pc' = IF TooManyDomains(domains_to_block) THEN "failed" ELSE "fetch"
    /\ UNCHANGED <<remote, github_actions, domains_to_block, runs, failures>>
    /\ UNCHANGED net

Next ==
    \/ \E d \in DesiredSets : StartRun(d)
    \/ FetchInventory
    \/ DeleteOrphan
    \/ CapacityGate
    \/ MapList
    \/ Plan
    \/ LoopExisting
    \/ PatchAttempt
    \/ UpdateReturn
    \/ LoopCreate
    \/ RuleStep
    \/ Exit
    \/ Rerun

Spec == Init /\ [][Next]_vars

\* ------------------------------------------- update_list called on its own
\* the domains update_list is called with: enough of them for a full list
\* and max_retries domains that the list does not hold
UpdateListDomains == 1..(LIST_SIZE + max_retries)

\* update_list(list_id, remove_items, append_items) called on a list of any
\* contents with any removal and append sets
InitUpdateList ==
    /\ \E items \in {S \in SUBSET UpdateListDomains : Cardinality(S) <= LIST_SIZE} :
         rlists = {[id |-> 1, idx |-> 1, items |-> items]}
    /\ \E remove_items \in SUBSET UpdateListDomains,
          append_items \in SUBSET UpdateListDomains :
         /\ ul = [list_id |-> 1, remove_list |-> remove_items,
                  append_items |-> append_items, attempt |-> 0,
                  status |-> "running", sent |-> <<>>]
         /\ upd = [list_id |-> 1, idx |-> 1, cur |-> get_list_items(1),
                   rem |-> {}, remove |-> remove_items, add |-> append_items]
    /\ pc = "call"
    /\ rrule = <<>>
    /\ nextId = 2
    /\ disk = EmptyCache
    /\ cache = EmptyCache
    /\ github_actions = FALSE
    /\ domains_to_block = {}
    /\ current_list_count = 0
    /\ current_rules = <<>>
    /\ orphaned_lists = <<>>
    /\ current_lists = <<>>
    /\ to_map = <<>>
    /\ remaining_domains = {}
    /\ list_name_to_id = {}
    /\ max_index = 0
    /\ i = 0
    /\ new_list_ids = <<>>
    /\ calls = <<>>
    /\ visits = <<>>
    /\ count0 = 0
    /\ orphans0 = {}
    /\ fresh = FALSE
    /\ repeat = FALSE
    /\ runs = 0
    /\ failures = 0
    /\ NetIdle

NextUpdateList == PatchAttempt

SpecUpdateList == InitUpdateList /\ [][NextUpdateList]_vars

\* ------------------------------------------------ teardown ("leave")
\* utils.safe_sort_key: the lists in the order of the index in their names
RECURSIVE SortByIndex(_)
SortByIndex(lists) ==
    IF lists = <<>> THEN <<>>
    ELSE LET k == CHOOSE k \in 1..Len(lists) :
                     \A j \in 1..Len(lists) :
                         \/ lists[k].idx < lists[j].idx
                         \/ (lists[k].idx = lists[j].idx /\ k <= j)
         IN <<lists[k]>> \o
            SortByIndex(SubSeq(lists, 1, k - 1) \o SubSeq(lists, k + 1, Len(lists)))

\* line 164: self.cache["rules"] = []
CacheWithoutRules(c) == [c EXCEPT !.rules = <<>>]

\* a deleted list dropped from the cached lists but not from the mapping
CacheWithoutListMeta(c, id) ==
    [c EXCEPT !.lists = SelectSeq(@, LAMBDA item : item.id # id)]

\* lines 173-177: the deleted list leaves the cached lists and the mapping
CacheWithoutList(c, id) ==
    [c EXCEPT !.lists = SelectSeq(@, LAMBDA item : item.id # id),
              !.mapping = MapDel(@, id)]

\* main() with action "leave": CloudflareManager(PREFIX) loads the cache
LeaveStart ==
    /\ pc = "idle"
    /\ cache' = disk
    /\ calls' = <<>>
    /\ pc' = "leave_inventory"
    /\ UNCHANGED <<remote, disk, github_actions, domains_to_block, locals,
                   visits, fresh, repeat, runs, failures>>
    /\ UNCHANGED net

\* lines 154-156: the lists and the rules (cache-assisted), the lists sorted
LeaveInventory ==
    /\ pc = "leave_inventory"
    /\ \/ LET lists == get_current_lists
              rules == get_current_rules
          IN /\ current_lists' = SortByIndex(lists)
             /\ current_rules' = rules
             /\ cache' = [cache EXCEPT !.lists = lists, !.rules = rules]
             /\ disk' = IF cache.lists # <<>> /\ cache.rules # <<>>
                        THEN disk ELSE cache'
             /\ i' = 1
             /\ pc' = "leave_rules"
             /\ UNCHANGED failures
       \/ /\ cache.lists = <<>> \/ cache.rules = <<>>
          /\ CanFail
          /\ failures' = failures + 1
          /\ Abort
          /\ UNCHANGED <<cache, disk, current_lists, current_rules, i>>
    /\ UNCHANGED <<remote, github_actions, domains_to_block,
                   current_list_count, orphaned_lists, to_map,
                   remaining_domains, list_name_to_id, max_index,
                   new_list_ids, upd, ul, calls, visits, count0, orphans0,
                   fresh, repeat, runs>>
    /\ UNCHANGED net

\* lines 159-165: one turn of the loop over current_rules
LeaveDeleteRule ==
    /\ pc = "leave_rules"
    /\ i <= Len(current_rules)
    /\ LET rule == current_rules[i]
           entry(ok) == Call("delete_rule", 0, i, {}, {}, Range(rule.traffic),
                             {}, ok)
       IN IF rule \notin Range(rrule)
          THEN /\ calls' = Append(calls, entry(FALSE))
               /\ Abort
               /\ UNCHANGED <<rrule, cache, disk, i, failures>>
          ELSE \/ /\ rrule' = SelectSeq(rrule, LAMBDA r : r # rule)
                  /\ cache' = CacheWithoutRules(cache)
                  /\ disk' = cache'
                  /\ calls' = Append(calls, entry(TRUE))
                  /\ i' = i + 1
                  /\ UNCHANGED <<pc, failures>>
               \/ /\ CanFail
                  /\ failures' = failures + 1
                  /\ calls' = Append(calls, entry(FALSE))
                  /\ Abort
                  /\ UNCHANGED <<rrule, cache, disk, i>>
    /\ UNCHANGED <<rlists, nextId, github_actions, domains_to_block,
                   current_list_count, current_rules, orphaned_lists,
                   current_lists, to_map, remaining_domains, list_name_to_id,
                   max_index, new_list_ids, upd, ul, visits, count0, orphans0,
                   fresh, repeat, runs>>
    /\ UNCHANGED net

\* lines 168-180: one turn of the loop over current_lists
LeaveDeleteList ==
    /\ pc = "leave_lists"
    /\ i <= Len(current_lists)
    /\ LET lst == current_lists[i]
           entry(ok) == Call("delete_list", lst.id, lst.idx, {}, {}, {}, {}, ok)
       IN IF lst.id \notin Ids(rlists)
          THEN /\ calls' = Append(calls, entry(FALSE))
               /\ Abort
               /\ UNCHANGED <<rlists, cache, disk, i, failures>>
          ELSE \/ /\ rlists' = MapDel(rlists, lst.id)
                  /\ cache' = CacheWithoutList(cache, lst.id)
                  /\ disk' = cache'
                  /\ calls' = Append(calls, entry(TRUE))
                  /\ i' = i + 1
                  /\ UNCHANGED <<pc, failures>>
               \/ /\ CanFail
                  /\ failures' = failures + 1
                  /\ calls' = Append(calls, entry(FALSE))
                  /\ Abort
                  /\ UNCHANGED <<rlists, cache, disk, i>>
    /\ UNCHANGED <<rrule, nextId, github_actions, domains_to_block,
                   current_list_count, current_rules, orphaned_lists,
                   current_lists, to_map, remaining_domains, list_name_to_id,
                   max_index, new_list_ids, upd, ul, visits, count0, orphans0,
                   fresh, repeat, runs>>
    /\ UNCHANGED net

\* a loop of delete_resources is exhausted: the rules' loop goes on to the
\* lists' loop, the lists' loop returns
LeaveLoopEnd ==
    /\ \/ /\ pc = "leave_rules"
          /\ i > Len(current_rules)
          /\ pc' = "leave_lists"
          /\ i' = 1
       \/ /\ pc = "leave_lists"
          /\ i > Len(current_lists)
          /\ pc' = "left"
          /\ UNCHANGED i
    /\ UNCHANGED <<remote, disk, cache, github_actions, domains_to_block,
                   current_list_count, current_rules, orphaned_lists,
                   current_lists, to_map, remaining_domains, list_name_to_id,
                   max_index, new_list_ids, upd, ul, calls, visits, count0,
                   orphans0, fresh, repeat, runs, failures>>
    /\ UNCHANGED net

\* the remote inventories teardown is run on: up to three lists (their ids
\* not in the order of their indices) and up to two rules of the managed name
LeaveLists ==
    {[id |-> 1, idx |-> 2, items |-> {1, 2}],
     [id |-> 2, idx |-> 1, items |-> {3}],
     [id |-> 3, idx |-> 3, items |-> {}]}

LeaveRules ==
    {<<>>, <<[traffic |-> <<1>>]>>,
     <<[traffic |-> <<1>>], [traffic |-> <<1, 2>>]>>}

\* the cache file that mirrors an inventory
CacheOf(lists, rules) ==
    LET ids == SeqOfSet(Ids(lists))
    IN [lists |-> [k \in 1..Len(ids) |->
                      [id |-> ids[k], idx |-> Entry(lists, ids[k]).idx]],
        rules |-> rules,
        mapping |-> {[id |-> l.id, items |-> l.items] : l \in lists}]

\* teardown starts on any of these inventories, with a cache file that is
\* absent or mirrors an inventory, the present one or an earlier one
InitLeave ==
    /\ rlists \in SUBSET LeaveLists
    /\ rrule \in LeaveRules
    /\ nextId = 4
    /\ disk \in {CacheOf(lists, rules) :
                    lists \in SUBSET LeaveLists, rules \in LeaveRules}
    /\ cache = EmptyCache
    /\ github_actions = FALSE
    /\ pc = "idle"
    /\ domains_to_block = {}
    /\ current_list_count = 0
    /\ current_rules = <<>>
    /\ orphaned_lists = <<>>
    /\ current_lists = <<>>
    /\ to_map = <<>>
    /\ remaining_domains = {}
    /\ list_name_to_id = {}
    /\ max_index = 0
    /\ i = 0
    /\ new_list_ids = <<>>
    /\ upd = NoUpd
    /\ ul = NoCall
    /\ calls = <<>>
    /\ visits = <<>>
    /\ count0 = 0
    /\ orphans0 = {}
    /\ fresh = FALSE
    /\ repeat = FALSE
    /\ runs = 0
    /\ failures = 0
    /\ NetIdle

NextLeave ==
    \/ LeaveStart
    \/ LeaveInventory
    \/ LeaveDeleteRule
    \/ LeaveDeleteList
    \/ LeaveLoopEnd

SpecLeave == InitLeave /\ [][NextLeave]_vars

\* ------------------------------------------------------ the request layer
\* One call of one operation of the remote client (cloudflare.py) or of
\* DomainConverter.download_file (domains.py), with the wrappers its
\* decorators put around it: retry outside, rate_limited_request inside.
ClientOperations ==
    {"create_list", "update_list", "create_rule", "update_rule", "get_lists",
     "get_rules", "delete_list", "delete_rule", "get_list_items"}

Operations == ClientOperations \cup {"download_file"}

\* the functions that carry @retry: cloudflare.py lines 7, 56, 69, 82, 88,
\* 94, 101, 107 and domains.py line 60; update_list (line 20) does not
Retried(f) == f # "update_list"

\* the functions that carry @rate_limited_request: cloudflare.py lines 8,
\* 20 and 95
RateLimited(f) == f \in {"create_list", "update_list", "delete_list"}

\* the error classes cloudflare_gateway_request raises
ApiFailures == {"server", "network", "rate", "client"}

\* requests.retry_config: the classes the client's retry profile retries
RetryConfigRetries(class) == class \in {"server", "network", "rate"}

\* domains.py line 12: 'retry': lambda e: isinstance(e, HTTPException).
\* download_file raises HTTPException for every failure but a 429, for
\* which it raises RateLimitException (lines 79, 94, 124, 132-136, 145)
AdlistRetries(class) == class # "rate" \/ rate_limit_is_http

\* the retry predicate of the function's retry configuration
RetryPredicate(f, class) ==
    IF f = "download_file" THEN AdlistRetries(class)
    ELSE RetryConfigRetries(class)

\* the attempts the function's retry configuration allows
AttemptBudget(f) == IF f = "download_file" THEN max_attempts ELSE MaxApiAttempts

\* domains.py line 90: if redirect_count > max_redirects
TooManyRedirects(count) == count > max_redirects

\* the attempt raises an error of the class
Raise(class) ==
    /\ last_failure' = class
    /\ rpc' = "except"

\* the retry wrapper (or, for update_list, the caller) calls the function
CallFunction ==
    /\ rpc = "call"
    /\ rpc' = IF RateLimited(operation) THEN "gate" ELSE "request"
    /\ patch_attempt' = 0
    /\ redirect_count' = 0
    /\ requests' = 0
    /\ response' = "none"
    /\ UNCHANGED <<operation, attempt_number, gated, ungated, last_failure,
                   decisions, overflow_at, rate_limit_is_http>>
    /\ UNCHANGED <<remote, disk, cache, github_actions, pc, domains_to_block,
                   locals, calls, visits, fresh, repeat, runs, failures>>
    /\ UNCHANGED adlists

\* requests.rate_limited_request: the gate, then the function's body
GatePass ==
    /\ rpc = "gate"
    /\ gated' = TRUE
    /\ rpc' = "request"
    /\ UNCHANGED <<operation, attempt_number, patch_attempt, redirect_count,
                   response, requests, ungated, last_failure, decisions,
                   overflow_at, rate_limit_is_http>>
    /\ UNCHANGED <<remote, disk, cache, github_actions, pc, domains_to_block,
                   locals, calls, visits, fresh, repeat, runs, failures>>
    /\ UNCHANGED adlists

\* the body of a client operation: one cloudflare_gateway_request.  In
\* update_list (cloudflare.py lines 28-52) a "not found in list" error
\* sends the next PATCH from inside the body.
ApiRequest ==
    /\ rpc = "request"
    /\ operation \in ClientOperations
    /\ requests' = requests + 1
    /\ ungated' = (ungated \/ ~gated)
    /\ gated' = FALSE
    /\ \/ /\ rpc' = "returned"
          /\ UNCHANGED <<patch_attempt, last_failure>>
       \/ /\ operation = "update_list"
          /\ IF MayRetry(patch_attempt)
             THEN /\ patch_attempt' = patch_attempt + 1
                  /\ UNCHANGED <<rpc, last_failure>>
             ELSE /\ Raise("not_found")
                  /\ UNCHANGED patch_attempt
       \/ \E class \in ApiFailures :
            /\ Raise(class)
            /\ UNCHANGED patch_attempt
    /\ UNCHANGED <<operation, attempt_number, redirect_count, response,
                   decisions, overflow_at, rate_limit_is_http>>
    /\ UNCHANGED <<remote, disk, cache, github_actions, pc, domains_to_block,
                   locals, calls, visits, fresh, repeat, runs, failures>>
    /\ UNCHANGED adlists

\* what a download's GET can come back with
DownloadResponses ==
    {"200", "redirect", "redirect_no_location", "4xx", "429", "5xx"}

\* domains.py lines 72-79 and 117-124: conn.request, conn.getresponse
DownloadRequest ==
    /\ rpc = "request"
    /\ operation = "download_file"
    /\ requests' = requests + 1
    /\ ungated' = (ungated \/ ~gated)
    /\ gated' = FALSE
    /\ \/ \E status \in DownloadResponses :
            /\ response' = status
            /\ rpc' = "response"
            /\ UNCHANGED last_failure
       \/ /\ Raise("network")
          /\ UNCHANGED response
    /\ UNCHANGED <<operation, attempt_number, patch_attempt, redirect_count,
                   decisions, overflow_at, rate_limit_is_http>>
    /\ UNCHANGED <<remote, disk, cache, github_actions, pc, domains_to_block,
                   locals, calls, visits, fresh, repeat, runs, failures>>
    /\ UNCHANGED adlists

\* domains.py lines 84-115: one turn of the redirect loop, up to the next
\* request
DownloadRedirect ==
    /\ rpc = "response"
    /\ response = "redirect"
    /\ redirect_count' = redirect_count + 1
    /\ IF TooManyRedirects(redirect_count')
       THEN /\ Raise("redirects")
            /\ overflow_at' = attempt_number
       ELSE /\ rpc' = "request"
            /\ UNCHANGED <<last_failure, overflow_at>>
    /\ UNCHANGED <<operation, attempt_number, patch_attempt, response,
                   requests, gated, ungated, decisions, rate_limit_is_http>>
    /\ UNCHANGED <<remote, disk, cache, github_actions, pc, domains_to_block,
                   locals, calls, visits, fresh, repeat, runs, failures>>
    /\ UNCHANGED adlists

\* domains.py lines 126-148: the response that is not followed
DownloadStatus ==
    /\ rpc = "response"
    /\ response # "redirect"
    /\ CASE response = "200" ->
                \/ rpc' = "returned" /\ UNCHANGED last_failure
                \/ Raise("network")
         [] response = "5xx" -> Raise("server")
         [] response = "429" -> Raise("rate")
         [] response = "4xx" -> Raise("client")
         [] OTHER -> Raise("no_location")
    /\ UNCHANGED <<operation, attempt_number, patch_attempt, redirect_count,
                   response, requests, gated, ungated, decisions, overflow_at,
                   rate_limit_is_http>>
    /\ UNCHANGED <<remote, disk, cache, github_actions, pc, domains_to_block,
                   locals, calls, visits, fresh, repeat, runs, failures>>
    /\ UNCHANGED adlists

\* requests.retry: the wrapper's handler of an error the function raised.
\* update_list has no wrapper: its error goes to its caller.
RetryDecision ==
    /\ rpc = "except"
    /\ LET again == /\ Retried(operation)
                    /\ RetryPredicate(operation, last_failure)
           stop == attempt_number >= AttemptBudget(operation)
       IN /\ decisions' = decisions \cup
                {[class |-> last_failure, retried |-> again /\ ~stop,
                  budget |-> ~stop]}
          /\ IF again /\ ~stop
             THEN /\ attempt_number' = attempt_number + 1
                  /\ rpc' = "call"
             ELSE /\ rpc' = "raised"
                  /\ UNCHANGED attempt_number
    /\ UNCHANGED <<operation, patch_attempt, redirect_count, response,
                   requests, gated, ungated, last_failure, overflow_at,
                   rate_limit_is_http>>
    /\ UNCHANGED <<remote, disk, cache, github_actions, pc, domains_to_block,
                   locals, calls, visits, fresh, repeat, runs, failures>>
    /\ UNCHANGED adlists

\* one call of any of the operations; whether RateLimitException is an
\* HTTPException is not in the source files and is left open
InitRequests ==
    /\ operation \in Operations
    /\ rate_limit_is_http \in BOOLEAN
    /\ rpc = "call"
    /\ attempt_number = 1
    /\ patch_attempt = 0
    /\ redirect_count = 0
    /\ response = "none"
    /\ requests = 0
    /\ gated = FALSE
    /\ ungated = FALSE
    /\ last_failure = "none"
    /\ decisions = {}
    /\ overflow_at = 0
    /\ AdlistsIdle
    /\ rlists = {}
    /\ rrule = <<>>
    /\ nextId = 1
    /\ disk = EmptyCache
    /\ cache = EmptyCache
    /\ github_actions = FALSE
    /\ pc = "request_layer"
    /\ domains_to_block = {}
    /\ current_list_count = 0
    /\ current_rules = <<>>
    /\ orphaned_lists = <<>>
    /\ current_lists = <<>>
    /\ to_map = <<>>
    /\ remaining_domains = {}
    /\ list_name_to_id = {}
    /\ max_index = 0
    /\ i = 0
    /\ new_list_ids = <<>>
    /\ upd = NoUpd
    /\ ul = NoCall
    /\ calls = <<>>
    /\ visits = <<>>
    /\ count0 = 0
    /\ orphans0 = {}
    /\ fresh = FALSE
    /\ repeat = FALSE
    /\ runs = 0
    /\ failures = 0

NextRequests ==
    \/ CallFunction
    \/ GatePass
    \/ ApiRequest
    \/ DownloadRequest
    \/ DownloadRedirect
    \/ DownloadStatus
    \/ RetryDecision

SpecRequests == InitRequests /\ [][NextRequests]_vars

\* ------------------------------------------------- passes that find orphans
\* The remote store an earlier pass left behind when it failed after its
\* create_list calls and before its rule call (lines 127 and 135-146):
\* three managed lists, of which the rule names none, the first or the
\* first two.
OrphanStore ==
    {[id |-> 1, idx |-> 1, items |-> {1, 2}],
     [id |-> 2, idx |-> 2, items |-> {3, 4}],
     [id |-> 3, idx |-> 3, items |-> {5}]}

OrphanStoreRules ==
    {<<>>, <<[traffic |-> <<1>>]>>, <<[traffic |-> <<1, 2>>]>>}

\* the cache file is the one of the last pass that completed
InitOrphans ==
    /\ rlists = OrphanStore
    /\ rrule \in OrphanStoreRules
    /\ nextId = 4
    /\ disk = IF rrule = <<>> THEN EmptyCache
              ELSE CacheOf({l \in OrphanStore : l.id \in Range(rrule[1].traffic)},
                           rrule)
    /\ cache = EmptyCache
    /\ github_actions \in BOOLEAN
    /\ pc = "idle"
    /\ domains_to_block = {}
    /\ current_list_count = 0
    /\ current_rules = <<>>
    /\ orphaned_lists = <<>>
    /\ current_lists = <<>>
    /\ to_map = <<>>
    /\ remaining_domains = {}
    /\ list_name_to_id = {}
    /\ max_index = 0
    /\ i = 0
    /\ new_list_ids = <<>>
    /\ upd = NoUpd
    /\ ul = NoCall
    /\ calls = <<>>
    /\ visits = <<>>
    /\ count0 = 0
    /\ orphans0 = {}
    /\ fresh = FALSE
    /\ repeat = FALSE
    /\ runs = MaxRuns - 1
    /\ failures = 0
    /\ NetIdle

SpecOrphans == InitOrphans /\ [][Next]_vars

\* ------------------------------------------- downloads with cache fallback
\* DomainConverter.process_urls (domains.py lines 173-183) and
\* download_with_cache (lines 150-171), one attempt of download_file
\* being one step.  A run is one process; the cache files outlive it.
Urls == {"a", "b", "w"}

\* the URL lists a run can be configured with (lines 29-30)
AdlistChoices == {<<"a">>, <<"a", "b">>, <<"b", "a">>}

WhitelistChoices == {<<>>, <<"w">>}

\* lines 177 and 181: the cache file of the URL at position k (from 0):
\* the base path for k = 0, the base path with the suffix .k otherwise
CacheFileName(base, k) == IF k = 0 THEN <<base>> ELSE <<base, k>>

\* the content of the cache file, as a set: empty when there is no file
ReadFile(name) == {f.data : f \in {g \in cache_files : g.name = name}}

\* open(cache_file, 'w'); f.write(data)
WriteFile(name, data) ==
    {f \in cache_files : f.name # name} \cup {[name |-> name, data |-> data]}

\* the errors one attempt of download_file raises (lines 79, 94, 124,
\* 128-136, 145)
DownloadFailures ==
    {"network", "server", "rate", "client", "no_location", "redirects"}

\* line 162: except HTTPException
CaughtByFallback(class) == class # "rate" \/ rate_limit_is_http

\* the loop the process is in, its URL list and its cache file base
UrlList == IF pc = "adlists" THEN adlist_urls ELSE whitelist_urls

CacheBase == IF pc = "adlists" THEN "ADLIST_CACHE" ELSE "WHITELIST_CACHE"

\* what the model leaves alone in the steps of process_urls
converge_state ==
    <<remote, disk, cache, github_actions, domains_to_block,
      current_list_count, current_rules, orphaned_lists, current_lists,
      to_map, remaining_domains, list_name_to_id, max_index, new_list_ids,
      upd, ul, count0, orphans0, calls, visits, fresh, repeat, failures>>

request_state ==
    <<operation, patch_attempt, redirect_count, response, requests, gated,
      ungated, decisions, overflow_at, rate_limit_is_http>>

\* DomainConverter.__init__ (lines 29-30) and the start of process_urls
ReadUrls(adlist, whitelist) ==
    /\ pc = "init"
    /\ runs < MaxRuns
    /\ runs' = runs + 1
    /\ adlist_urls' = adlist
    /\ whitelist_urls' = whitelist
    /\ block_content' = <<>>
    /\ white_content' = <<>>
    /\ i' = 0
    /\ pc' = "adlists"
    /\ UNCHANGED <<cache_files, rpc, attempt_number, last_failure>>
    /\ UNCHANGED <<converge_state, request_state>>

\* lines 176-178 and 180-182: the head of either loop; download_with_cache
\* is called for the URL at position i, or the loop is over
NextUrl ==
    /\ pc \in {"adlists", "whitelists"}
    /\ rpc = "none"
    /\ IF i < Len(UrlList)
       THEN /\ rpc' = "call"
            /\ attempt_number' = 1
            /\ UNCHANGED <<pc, i>>
       ELSE /\ pc' = IF pc = "adlists" THEN "whitelists" ELSE "converted"
            /\ i' = 0
            /\ UNCHANGED <<rpc, attempt_number>>
    /\ UNCHANGED <<last_failure, runs, adlists>>
    /\ UNCHANGED <<converge_state, request_state>>

\* lines 61-148: one attempt of download_file returns the data or raises
DownloadAttempt ==
    /\ pc \in {"adlists", "whitelists"}
    /\ rpc = "call"
    /\ \/ /\ rpc' = "returned"
          /\ UNCHANGED last_failure
       \/ \E class \in DownloadFailures : Raise(class)
    /\ UNCHANGED <<pc, i, attempt_number, runs, adlists>>
    /\ UNCHANGED <<converge_state, request_state>>

\* line 60, @retry(**adlist_retry_config): the wrapper's handler of the
\* error an attempt raised
DownloadRetry ==
    /\ pc \in {"adlists", "whitelists"}
    /\ rpc = "except"
    /\ IF /\ RetryPredicate("download_file", last_failure)
          /\ attempt_number < AttemptBudget("download_file")
       THEN /\ attempt_number' = attempt_number + 1
            /\ rpc' = "call"
       ELSE /\ rpc' = "raised"
            /\ UNCHANGED attempt_number
    /\ UNCHANGED <<pc, i, last_failure, runs, adlists>>
    /\ UNCHANGED <<converge_state, request_state>>

\* the content collected for a URL
Collected(url, data, is_fresh) ==
    [url |-> url, data |-> data, fresh |-> is_fresh]

\* block_content += ... (line 178), white_content += ... (line 182)
Collect(entry) ==
    IF pc = "adlists"
    THEN /\ block_content' = Append(block_content, entry)
         /\ UNCHANGED white_content
    ELSE /\ white_content' = Append(white_content, entry)
         /\ UNCHANGED block_content

\* lines 153-161: the download returned; the cache file is written, or the
\* write fails and is logged; the fresh data is returned
CacheWrite ==
    /\ pc \in {"adlists", "whitelists"}
    /\ rpc = "returned"
    /\ LET url == UrlList[i + 1]
           data == [url |-> url, run |-> runs]
       IN /\ \/ cache_files' = WriteFile(CacheFileName(CacheBase, i), data)
             \/ UNCHANGED cache_files
          /\ Collect(Collected(url, data, TRUE))
    /\ i' = i + 1
    /\ rpc' = "none"
    /\ UNCHANGED <<pc, attempt_number, last_failure, runs, adlist_urls,
                   whitelist_urls>>
    /\ UNCHANGED <<converge_state, request_state>>

\* lines 162-171: the download raised; an HTTPException is caught and the
\* cache file read, a missing file ending the run; any other exception
\* leaves download_with_cache and ends the run
CacheFallback ==
    /\ pc \in {"adlists", "whitelists"}
    /\ rpc = "raised"
    /\ LET url == UrlList[i + 1]
           cached == ReadFile(CacheFileName(CacheBase, i))
       IN IF CaughtByFallback(last_failure) /\ cached # {}
          THEN /\ \E cached_data \in cached :
                    Collect(Collected(url, cached_data, FALSE))
               /\ i' = i + 1
               /\ rpc' = "none"
          ELSE /\ rpc' = "failed"
               /\ UNCHANGED <<i, block_content, white_content>>
    /\ UNCHANGED <<pc, attempt_number, last_failure, runs, adlist_urls,
                   whitelist_urls, cache_files>>
    /\ UNCHANGED <<converge_state, request_state>>

\* the process ends, with the domain list or with the error
EndProcess ==
    /\ \/ pc = "converted"
       \/ pc \in {"adlists", "whitelists"} /\ rpc = "failed"
    /\ pc' = "init"
    /\ rpc' = "none"
    /\ i' = 0
    /\ attempt_number' = 0
    /\ last_failure' = "none"
    /\ UNCHANGED <<runs, adlists>>
    /\ UNCHANGED <<converge_state, request_state>>

InitDownload ==
    /\ pc = "init"
    /\ rate_limit_is_http \in BOOLEAN
    /\ operation = "download_file"
    /\ rpc = "none"
    /\ attempt_number = 0
    /\ patch_attempt = 0
    /\ redirect_count = 0
    /\ response = "none"
    /\ requests = 0
    /\ gated = FALSE
    /\ ungated = FALSE
    /\ last_failure = "none"
    /\ decisions = {}
    /\ overflow_at = 0
    /\ AdlistsIdle
    /\ rlists = {}
    /\ rrule = <<>>
    /\ nextId = 1
    /\ disk = EmptyCache
    /\ cache = EmptyCache
    /\ github_actions = FALSE
    /\ domains_to_block = {}
    /\ current_list_count = 0
    /\ current_rules = <<>>
    /\ orphaned_lists = <<>>
    /\ current_lists = <<>>
    /\ to_map = <<>>
    /\ remaining_domains = {}
    /\ list_name_to_id = {}
    /\ max_index = 0
    /\ i = 0
    /\ new_list_ids = <<>>
    /\ upd = NoUpd
    /\ ul = NoCall
    /\ calls = <<>>
    /\ visits = <<>>
    /\ count0 = 0
    /\ orphans0 = {}
    /\ fresh = FALSE
    /\ repeat = FALSE
    /\ runs = 0
    /\ failures = 0

NextDownload ==
    \/ \E adlist \in AdlistChoices, whitelist \in WhitelistChoices :
         ReadUrls(adlist, whitelist)
    \/ NextUrl
    \/ DownloadAttempt
    \/ DownloadRetry
    \/ CacheWrite
    \/ CacheFallback
    \/ EndProcess

SpecDownload == InitDownload /\ [][NextDownload]_vars

\* ================================================================ claims
InUse == extract_list_ids(rrule)

InUseItems == UNION {l.items : l \in {x \in rlists : x.id \in InUse}}

CallsOf(op) == {k \in 1..Len(calls) : calls[k].op = op}

\* update_list is being, or has been, called for the list in this pass
UpdateIssued(id) ==
    \/ \E k \in CallsOf("update_list") : calls[k].id = id
    \/ pc = "update_list" /\ ul.list_id = id

\* C1 (as claimed): when a pass completes, the union of the items of the
\* lists the rule names is exactly the desired set.
C1_Coverage ==
    pc = "done" => InUseItems = domains_to_block

\* C2 (as claimed): a run that repeats a successful run, with the same
\* desired set and the remote untouched, issues no mutating call.
C2_Idempotence ==
    repeat => calls = <<>> /\ ul.status = "none"

\* C3: every managed list holds at most LIST_SIZE items, every create_list
\* payload and every list content an update_list call leaves has at most
\* LIST_SIZE items, and the lists in use (those the pass has placed, those
\* the rule names) are never more than MAX_LISTS.
C3_Capacity ==
    /\ \A l \in rlists : Cardinality(l.items) <= LIST_SIZE
    /\ \A k \in CallsOf("create_list") : Cardinality(calls[k].add) <= LIST_SIZE
    /\ \A k \in CallsOf("update_list") :
         Cardinality((calls[k].cur \ calls[k].remove) \cup calls[k].add)
            <= LIST_SIZE
    /\ Len(new_list_ids) <= MAX_LISTS
    /\ Cardinality(InUse) <= MAX_LISTS

\* C3's case: the rule names MAX_LISTS lists, every one of them full
C3_Witness ==
    /\ Cardinality(InUse) = MAX_LISTS
    /\ \A l \in rlists : l.id \in InUse /\ Cardinality(l.items) = LIST_SIZE
    /\ CallsOf("update_list") # {}

\* C4: a desired set larger than MAX_DOMAINS makes the run fail at once: no
\* mutating call is issued, no request is in flight.
C4_Precheck ==
    (pc # "idle" /\ Cardinality(domains_to_block) > MAX_DOMAINS)
        => pc = "failed" /\ calls = <<>> /\ ul.status = "none"

\* C4's case: a run over capacity has failed, lists existing remotely
C4_Witness ==
    /\ pc = "failed"
    /\ Cardinality(domains_to_block) > MAX_DOMAINS
    /\ rlists # {}

OkDeletesBefore(k) ==
    Cardinality({j \in CallsOf("delete_list") : j < k /\ calls[j].ok})

\* C5 (as claimed): every orphan the pass found has had its delete_list call
\* before any create_list call of the pass.
C5_EveryOrphanDeleted ==
    \A k \in CallsOf("create_list") :
        \A id \in orphans0 :
            \E j \in CallsOf("delete_list") : j < k /\ calls[j].id = id

\* C5 (amended): the delete_list calls of a pass are for orphans the pass
\* found and all come before any other mutating call; each successful one
\* lowers the list count by exactly one; after a successful deletion
\* another one is issued only if the count is still at or above MAX_LISTS;
\* and a pass that found orphans and went on past the capacity gate has
\* issued a delete_list call first and has a count below MAX_LISTS.
C5_OrphanReclamation ==
    /\ \A k \in CallsOf("delete_list") :
         /\ calls[k].id \in orphans0
         /\ \A j \in 1..(k - 1) : calls[j].op = "delete_list"
         /\ (k > 1 /\ calls[k - 1].ok) => count0 - OkDeletesBefore(k) >= MAX_LISTS
    /\ pc \in {"orphans", "mapping", "loop", "update_list", "done"}
         => current_list_count = count0 - OkDeletesBefore(Len(calls) + 1)
    /\ pc \in {"mapping", "loop", "update_list", "done"}
         => /\ current_list_count < MAX_LISTS
            /\ orphans0 # {} => calls # <<>> /\ calls[1].op = "delete_list"

\* C5's case: a pass has deleted an orphan, left another one in place, and
\* gone on to create a list
C5_Witness ==
    /\ \E k \in CallsOf("create_list") :
         \E j \in CallsOf("delete_list") : j < k /\ calls[j].ok
    /\ \E id \in orphans0 : \A j \in CallsOf("delete_list") : calls[j].id # id
    /\ current_list_count = count0 - 1

\* C6: after a pass the rule exists and names exactly the lists the pass
\* put in use; update_rule is called only on an existing rule whose set of
\* lists differs, create_rule only when the remote holds no managed rule.
C6_RuleConvergence ==
    /\ pc = "done" => rrule # <<>> /\ InUse = Range(new_list_ids)
    /\ \A k \in CallsOf("update_rule") :
         calls[k].existed /\ calls[k].add # calls[k].cur
    /\ \A k \in CallsOf("create_rule") : ~calls[k].existed

\* C6's case: a pass has ended with the rule rewritten to a new set of lists
C6_Witness ==
    /\ pc = "done"
    /\ \E k \in CallsOf("update_rule") : calls[k].ok /\ calls[k].cur # {}

\* C7: a visited list whose fresh contents are all desired, and which is
\* full or met an empty remaining set, gets no update_list call.
C7_MinimalWrites ==
    \A k \in 1..Len(visits) :
        (/\ visits[k].cur \subseteq domains_to_block
         /\ \/ Cardinality(visits[k].cur) = LIST_SIZE
            \/ visits[k].rem = {})
        => ~UpdateIssued(visits[k].id)

\* C7's case: a pass has ended in which a full list of desired domains was
\* visited while domains remained to be placed, and was passed over, and
\* another list was then topped up with them
C7_Witness ==
    /\ pc = "done"
    /\ \E k \in 1..Len(visits) :
         /\ visits[k].cur \subseteq domains_to_block
         /\ Cardinality(visits[k].cur) = LIST_SIZE
         /\ visits[k].rem # {}
         /\ ~UpdateIssued(visits[k].id)
    /\ \E k \in CallsOf("update_list") : calls[k].ok /\ calls[k].add # {}

\* the arguments of an update_list call are the diff of the fetched list
UpdateDiff(c) ==
    /\ c.remove = c.cur \ domains_to_block
    /\ c.add \subseteq c.rem
    /\ Cardinality(c.add) =
          Min2(LIST_SIZE - Cardinality(c.cur \cap domains_to_block),
               Cardinality(c.rem))

\* C8: every update_list call removes the fetched items that are not
\* desired and adds a subset of the remaining domains that fills the list
\* as far as the remaining domains go; the first PATCH carries exactly that.
C8_UpdateDiff ==
    /\ \A k \in CallsOf("update_list") : UpdateDiff(calls[k])
    /\ pc = "update_list" =>
         /\ UpdateDiff(upd)
         /\ ul.sent # <<>> =>
              ul.sent[1] = [remove |-> upd.remove, append |-> upd.add]

\* C8's case: a full list with one item no longer desired and nothing
\* remaining: the call removes that item and adds nothing
C8_Witness ==
    \E k \in CallsOf("update_list") :
        /\ calls[k].ok
        /\ Cardinality(calls[k].cur) = LIST_SIZE
        /\ Cardinality(calls[k].remove) = 1
        /\ calls[k].add = {}
        /\ calls[k].rem = {}

\* C9: a pass that starts on an empty remote and an empty cache with n > 0
\* desired domains creates ceil(n / LIST_SIZE) lists, at the indices 1, 2,
\* ... in order, all full but possibly the last, then one rule naming them
\* all, and issues no other mutating call.
C9_FreshConvergence ==
    (pc = "done" /\ fresh /\ domains_to_block # {}) =>
        LET n == Cardinality(domains_to_block)
            lists == (n + LIST_SIZE - 1) \div LIST_SIZE
        IN /\ Len(calls) = lists + 1
           /\ \A k \in 1..lists :
                /\ calls[k].op = "create_list"
                /\ calls[k].ok
                /\ calls[k].idx = k
                /\ Cardinality(calls[k].add) =
                      IF k < lists THEN LIST_SIZE
                      ELSE n - (lists - 1) * LIST_SIZE
           /\ calls[lists + 1].op = "create_rule"
           /\ calls[lists + 1].ok
           /\ calls[lists + 1].add = {calls[k].id : k \in 1..lists}
           /\ rlists = {[id |-> calls[k].id, idx |-> k, items |-> calls[k].add] :
                           k \in 1..lists}
           /\ InUseItems = domains_to_block

\* C9's case: a fresh pass has placed 2 * LIST_SIZE + 1 domains, in two full
\* lists and a list of one (the 1000/1000/500 of the scenario)
C9_Witness ==
    /\ pc = "done"
    /\ fresh
    /\ Cardinality(domains_to_block) = 2 * LIST_SIZE + 1
    /\ Cardinality(rlists) = 3
    /\ Len(calls) = 4

\* update_list, called on its own, has ended without an error other than
\* "not found in list"
UpdateListEnded ==
    /\ pc = "call"
    /\ ul.status \in {"returned", "raised"}
    /\ failures = 0

Stale == upd.remove \ upd.cur

\* C10 (as claimed): update_list called with a removal set that holds
\* domains the list no longer holds returns.
C10_StaleRemovalAlways ==
    (UpdateListEnded /\ Stale # {}) => ul.status = "returned"

\* C10 (amended): when at most max_retries - 1 domains of the removal set
\* are not in the list, update_list returns, the list then holding its
\* former items less the removal set plus the appended ones, and the last
\* request removing exactly the domains the list held.
C10_StaleRemovalRecovery ==
    (UpdateListEnded /\ Stale # {} /\ Cardinality(Stale) <= max_retries - 1) =>
        /\ ul.status = "returned"
        /\ get_list_items(1) = (upd.cur \ upd.remove) \cup upd.add
        /\ ul.sent[Len(ul.sent)].remove = upd.remove \cap upd.cur
        /\ Len(ul.sent) = Cardinality(Stale) + 1

\* C10's case: two stale domains were filtered, one per retry, and the
\* third request went through, removing and appending
C10_Witness ==
    /\ UpdateListEnded
    /\ ul.status = "returned"
    /\ Cardinality(Stale) = 2
    /\ upd.remove \cap upd.cur # {}
    /\ upd.add \ upd.cur # {}

\* the deletion calls teardown has issued, by the position of the rule in
\* current_rules and of the list in current_lists
RuleTried(j) == \E k \in CallsOf("delete_rule") : calls[k].idx = j

ListTried(j) ==
    \E k \in CallsOf("delete_list") : calls[k].id = current_lists[j].id

RuleDeleted(j) ==
    \E k \in CallsOf("delete_rule") : calls[k].idx = j /\ calls[k].ok

\* teardown has taken its inventory
InTeardown ==
    \/ pc \in {"leave_rules", "leave_lists", "left"}
    \/ pc = "failed" /\ calls # <<>>

\* C11 (as claimed): teardown never ends before it has tried to delete every
\* managed rule and every managed list; a deletion that fails does not stop
\* it.
C11_TeardownTolerance ==
    pc \in {"left", "failed"} =>
        /\ \A j \in 1..Len(current_rules) : RuleTried(j)
        /\ \A j \in 1..Len(current_lists) : ListTried(j)

\* C12 (as claimed): every delete_rule call comes before every delete_list
\* call; the cache file is the in-memory cache after every deletion; the
\* cached lists and mapping hold no list teardown has deleted; the cached
\* rules are exactly the managed rules not yet deleted.
C12_TeardownCacheExact ==
    InTeardown =>
        /\ \A j \in CallsOf("delete_rule"), k \in CallsOf("delete_list") : j < k
        /\ current_rules # <<>> \/ current_lists # <<>> => disk = cache
        /\ \A k \in CallsOf("delete_list") :
             calls[k].ok =>
                /\ calls[k].id \notin {l.id : l \in Range(cache.lists)}
                /\ calls[k].id \notin Ids(cache.mapping)
        /\ Range(cache.rules) =
              {current_rules[j] : j \in {j \in 1..Len(current_rules) :
                                            ~RuleDeleted(j)}}

\* C12 (amended): as claimed, but for the cached rules: they are the rules
\* teardown found until the first successful delete_rule, and empty from
\* then on, whatever rules are still to be deleted.
C12_TeardownCacheUpkeep ==
    InTeardown =>
        /\ \A j \in CallsOf("delete_rule"), k \in CallsOf("delete_list") : j < k
        /\ current_rules # <<>> \/ current_lists # <<>> => disk = cache
        /\ \A k \in CallsOf("delete_list") :
             calls[k].ok =>
                /\ calls[k].id \notin {l.id : l \in Range(cache.lists)}
                /\ calls[k].id \notin Ids(cache.mapping)
        /\ cache.rules = IF \E j \in 1..Len(current_rules) : RuleDeleted(j)
                         THEN <<>> ELSE current_rules

\* C12's case: teardown has deleted two rules and then two lists and has
\* returned, the cache file empty
C12_Witness ==
    /\ pc = "left"
    /\ Cardinality({k \in CallsOf("delete_rule") : calls[k].ok}) = 2
    /\ Cardinality({k \in CallsOf("delete_list") : calls[k].ok}) >= 2
    /\ disk = EmptyCache

\* the cache c reflects the successful mutating call m
Reflects(c, m) ==
    CASE m.op = "delete_list" ->
            /\ m.id \notin {l.id : l \in Range(c.lists)}
            /\ m.id \notin Ids(c.mapping)
      [] m.op = "create_list" ->
            /\ m.id \in {l.id : l \in Range(c.lists)}
            /\ m.id \in Ids(c.mapping)
            /\ Entry(c.mapping, m.id).items = m.add
      [] m.op = "update_list" ->
            /\ m.id \in Ids(c.mapping)
            /\ Entry(c.mapping, m.id).items = (m.cur \ m.remove) \cup m.add
      [] OTHER ->
            /\ c.rules # <<>>
            /\ Range(c.rules[1].traffic) = m.add

\* C13 (as claimed): in a converge pass, once a mutating call has returned,
\* the in-memory cache and the cache file reflect it before the next
\* mutating call is issued, and still do if the pass aborts.
C13_CacheCommit ==
    pc \in {"orphans", "mapping", "loop", "update_list", "failed"} =>
        \A k \in 1..Len(calls) :
            calls[k].ok => Reflects(cache, calls[k]) /\ Reflects(disk, calls[k])

\* the operations the rate-limit gate is claimed for
GateClaimed == {"create_list", "update_list", "delete_list", "get_list_items"}

\* C14 (rate-limit gate): every request a list-mutating operation
\* (create_list, update_list, delete_list) or the list-reading operation
\* get_list_items sends follows a gate pass of its own: no request of
\* such an operation is sent without a gate pass since the one before it
C14_RateLimitGate == operation \in GateClaimed => ~ungated

\* the failure classes a retry profile is said to retry
Retryable == {"server", "network", "rate"}

\* C15 (retry classification): after a failed attempt of download_file or
\* of a client operation (update_list included, its not-found case
\* apart) the operation is attempted again exactly when the failure is a
\* server error, a network error or a rate limit and the attempt budget
\* is not used up; a generic client error is never retried
C15_RetryClassification ==
    \A decision \in decisions :
        decision.class \in ApiFailures =>
            (decision.retried <=>
                (decision.class \in Retryable /\ decision.budget))

\* within one attempt of download_file at most max_redirects redirects
\* are followed: the first request and one more for each followed redirect
RedirectsFollowedCapped ==
    operation = "download_file" =>
        /\ requests <= 1 + max_redirects
        /\ redirect_count <= max_redirects + 1
        /\ redirect_count > max_redirects => rpc # "request"

\* C16 (redirect cap): within one download request at most 10 redirects
\* are followed; on the 11th redirect no further request is sent and the
\* failure is fatal for the request: the download is not attempted again
C16_RedirectCap ==
    /\ RedirectsFollowedCapped
    /\ overflow_at # 0 => attempt_number = overflow_at

\* the calls of the pass that are not orphan deletions
AllocatingCalls ==
    {k \in DOMAIN calls :
        calls[k].op \in {"create_list", "update_list", "create_rule",
                         "update_rule"}}

\* C17 (capacity gate): if the count of managed lists is still at or above
\* MAX_LISTS after the orphan loop, update_resources fails: the pass does
\* not go on past the gate, and no create_list, update_list, create_rule
\* or update_rule call is issued in it
C17_CapacityGate ==
    /\ pc \in {"mapping", "loop", "update_list", "done"}
         => current_list_count < MAX_LISTS
    /\ current_list_count >= MAX_LISTS
         => /\ AllocatingCalls = {}
            /\ ul = NoCall
            /\ pc \in {"orphans", "failed"}

\* C17's case: the orphan loop is over, MAX_LISTS lists still exist, and
\* the pass has failed at the gate with no remote call having failed
C17_Witness ==
    /\ pc = "failed"
    /\ failures = 0
    /\ orphaned_lists = <<>>
    /\ current_list_count >= MAX_LISTS
    /\ Cardinality(rlists) >= MAX_LISTS

\* the delete_list calls of the pass that failed
FailedDeletes == {k \in CallsOf("delete_list") : ~calls[k].ok}

\* the orphan loop ended early: a deletion brought the count below MAX_LISTS
StoppedEarly ==
    \E k \in CallsOf("delete_list") :
        calls[k].ok /\ count0 - OkDeletesBefore(k + 1) < MAX_LISTS

\* the pass is at the capacity gate or beyond it
OrphanLoopOver ==
    \/ pc \in {"mapping", "loop", "update_list", "done"}
    \/ pc \in {"orphans", "failed"} /\ orphaned_lists = <<>>

\* what holds in every state of a pass for C18
BestEffortState ==
    /\ pc \in {"orphans", "mapping", "loop", "update_list", "done"}
         => current_list_count = count0 - OkDeletesBefore(Len(calls) + 1)
    /\ FailedDeletes # {} => pc # "failed" \/ orphaned_lists = <<>>
    /\ (OrphanLoopOver /\ ~StoppedEarly)
         => Cardinality({calls[k].id : k \in CallsOf("delete_list")})
               = Min2(Cardinality(orphans0), MAX_LISTS)
    /\ \A k \in DOMAIN calls :
         (~calls[k].ok /\ calls[k].op # "delete_list")
            => k = Len(calls) /\ pc = "failed"

\* C18 (best-effort orphan cleanup): a failed delete_list of an orphan is
\* recorded, does not lower the list count, is followed by the deletion
\* attempts for the orphans after it, and the pass goes on to the capacity
\* gate; a failure of create_list, update_list, get_list_items,
\* create_rule or update_rule ends the pass, and a pass that has failed
\* issues no further call and changes nothing remotely
C18_BestEffortCleanup ==
    /\ []BestEffortState
    /\ [][pc = "failed" => (Len(calls') <= Len(calls) /\ remote' = remote)]_vars

\* C18's case: the deletion of one orphan failed, the next orphan was
\* deleted all the same, and the pass went on past the capacity gate
C18_Witness ==
    /\ \E k \in FailedDeletes :
         \E j \in CallsOf("delete_list") : j > k /\ calls[j].ok
    /\ pc \in {"mapping", "loop", "update_list", "done"}

\* the calls of the pass that place domains taken from remaining_domains
PlacingCalls == CallsOf("create_list") \cup CallsOf("update_list")

\* the sets taken from remaining_domains at different indices are disjoint
TakenDisjoint ==
    \A j, k \in PlacingCalls :
        j # k => calls[j].add \cap calls[k].add = {}

\* C19 (exhaustive and disjoint placement): within one pass the sets of
\* domains taken from remaining_domains at different indices are pairwise
\* disjoint, and a pass never completes while remaining_domains is
\* non-empty: every remaining domain was placed, or the pass failed
C19_ExhaustivePlacement ==
    /\ TakenDisjoint
    /\ pc = "done" => remaining_domains = {}

\* the k-th request of the invocation was answered "not found in list":
\* it asked to remove a domain the list does not hold (the list is
\* unchanged until a request is accepted)
NotFoundAt(k) == ~(ul.sent[k].remove \subseteq upd.cur)

\* C20 (bounded not-found retry): one invocation of update_list sends at
\* most max_retries (3) PATCH requests; a request is followed by another
\* one only after a not-found error; each retry removes what the request
\* before it removed less at most one domain and appends the same set;
\* any other error, and a not-found error on the third attempt, is raised
C20_BoundedNotFoundRetry ==
    ul.status # "none" =>
        /\ Len(ul.sent) <= max_retries
        /\ \A k \in 1..(Len(ul.sent) - 1) :
             /\ NotFoundAt(k)
             /\ ul.sent[k + 1].append = ul.sent[k].append
             /\ ul.sent[k + 1].remove \subseteq ul.sent[k].remove
             /\ Cardinality(ul.sent[k].remove \ ul.sent[k + 1].remove) <= 1
        /\ failures > 0 => ul.status = "raised"
        /\ (Len(ul.sent) = max_retries /\ NotFoundAt(max_retries))
             => ul.status = "raised"
        /\ ul.status = "returned" => ~NotFoundAt(Len(ul.sent))

\* C20's case: three requests were sent, each one removing one domain
\* less, and the not-found error of the third was raised
C20_Witness ==
    /\ ul.status = "raised"
    /\ failures = 0
    /\ Len(ul.sent) = max_retries
    /\ Cardinality(ul.sent[1].remove \ ul.sent[max_retries].remove)
          = max_retries - 1
    /\ ul.sent[1].append # {}

\* the URL download_with_cache is at work on, and its cache file
InDownload == pc \in {"adlists", "whitelists"} /\ rpc # "none"

\* what process_urls has collected, with the URL list it was collected for
CollectedFor ==
    {<<block_content, adlist_urls>>, <<white_content, whitelist_urls>>}

\* at most max_attempts attempts are made for a URL
AttemptsBounded == InDownload => attempt_number <= max_attempts

\* fresh data is data of this run for the URL of its position
FreshReturned ==
    \A pair \in CollectedFor :
        \A k \in 1..Len(pair[1]) :
            /\ pair[1][k].url = pair[2][k]
            /\ pair[1][k].fresh =>
                  pair[1][k].data = [url |-> pair[2][k], run |-> runs]

\* the run fails in download_with_cache only when the URL has no cache file
FailsOnlyWithoutCache ==
    (InDownload /\ rpc = "failed")
        => ReadFile(CacheFileName(CacheBase, i)) = {}

\* a fallback returns data that was downloaded from the same URL
FallbackOwnData ==
    \A pair \in CollectedFor :
        \A k \in 1..Len(pair[1]) : pair[1][k].data.url = pair[1][k].url

\* C21 (download fallback): download_with_cache makes at most 15 download
\* attempts for a URL; a successful download returns the fresh data; when
\* every attempt has failed, whatever the class of the failure, the cached
\* content is returned if the URL's cache file exists, and the run fails
\* only when it does not; the fallback for a URL is never the data of
\* another URL
C21_DownloadFallback ==
    /\ AttemptsBounded
    /\ FreshReturned
    /\ FailsOnlyWithoutCache
    /\ FallbackOwnData

\* the pass has failed with a capacity error: at the gate of line 58, or
\* at the list limit of line 122
CapacityError ==
    /\ pc = "failed"
    /\ \/ current_list_count >= MAX_LISTS
       \/ Len(new_list_ids) >= MAX_LISTS /\ remaining_domains # {}

\* C22 (repeatable convergence): a pass that follows a successful pass,
\* with the same desired set and the remote state unchanged, completes as
\* well: it fails only if one of its remote calls fails, and never with a
\* capacity error
C22_RepeatableConvergence ==
    repeat =>
        /\ ~CapacityError
        /\ failures = 0 => pc # "failed"

============================================================================
